---- MODULE Spec2Model ----
(***************************************************************************)
(* SkipList<Key> of include/skip_list.hpp, with Key = int.                 *)
(*                                                                         *)
(* The heap of Node objects is a function from node addresses to records;  *)
(* a list object is one index of the per-list fields head_, maxLevel_,     *)
(* maxAllowedLevel_, probability_ and rng_.  Level i of the C++ code       *)
(* (0-based) is index i+1 of the TLA+ sequence `next`.                     *)
(*                                                                         *)
(* The program observes addresses through equality and null tests only,   *)
(* so a state stores the heap up to renaming of addresses: every operation *)
(* leaves the cells in the canonical order of Canon.                       *)
(***************************************************************************)
EXTENDS Integers, Sequences, FiniteSets, TLC

\* ---------------------------------------------------------------- bounds
MaxKey == 1          \* keys are 0..MaxKey (0 is also Key() of the sentinel)
MaxNodes == 3        \* node addresses are 1..MaxNodes
MaxLevelArg == 2     \* maxAllowedLevel arguments are 1..MaxLevelArg
MaxDraws == 1        \* rng_ counts the values drawn since seeding, up to this
MaxCap == 3          \* the tallest maxAllowedLevel argument (of TallSpec)

NULL == 0
Keys == 0..MaxKey
NodeIds == 1..MaxNodes
Lists == {1, 2}
Probs == {25, 50}            \* probability_, in percent
\* the (probability, maxAllowedLevel) arguments of the constructor
Args == {<<IF m % 2 = 0 THEN 50 ELSE 25, m>> : m \in 1..MaxLevelArg}
Draws == {10, 90}            \* values of dist_(rng_), in percent
Levels == 1..MaxLevelArg

VARIABLES
    heap,              \* NodeIds -> [alloc, key, next]: the Node objects
    live,              \* Lists -> BOOLEAN: the list object is constructed
    head_,             \* Lists -> address of the sentinel (NULL if none)
    maxLevel_,         \* Lists -> current height
    maxAllowedLevel_,  \* Lists -> level cap
    probability_,      \* Lists -> promotion probability (percent)
    rng_,              \* Lists -> state of the random number generator
    ref,               \* Lists -> reference set of keys (history of calls)
    op,                \* the last call: [name, dst, src]
    ret,               \* what the last call returned
    out                \* what the last call wrote or iterated

listVars == <<heap, live, head_, maxLevel_, maxAllowedLevel_, probability_, rng_>>
vars == <<heap, live, head_, maxLevel_, maxAllowedLevel_, probability_, rng_,
          ref, op, ret, out>>

\* ------------------------------------------------------------- the heap
FreeCell == [alloc |-> FALSE, key |-> 0, next |-> <<>>]

\* Node(const Key& k, int level) : key(k), next(level, nullptr)
Node(k, level) == [alloc |-> TRUE, key |-> k, next |-> [i \in 1..level |-> NULL]]

Allocated(h) == {n \in NodeIds : h[n].alloc}

\* operator new: the address of a free cell
NewAddr(h) == CHOOSE n \in NodeIds \ Allocated(h) :
                  \A m \in NodeIds \ Allocated(h) : n <= m

HasFree(h) == Allocated(h) # NodeIds

\* v[i] of a std::vector, i counted from 0
At(v, i) == v[i + 1]

\* std::vector::resize(n, nullptr)
Resize(v, n) == [i \in 1..n |-> IF i <= Len(v) THEN v[i] ELSE NULL]

\* std::vector::pop_back()
PopBack(v) == SubSeq(v, 1, Len(v) - 1)

\* ------------------------------------------------------------ the search
\* the walk that never advances
AdvanceNever(h, cur, i, key, fuel) == cur

\* the walk that also passes a node holding the key itself (<= for <)
RECURSIVE AdvanceLE(_, _, _, _, _)
AdvanceLE(h, cur, i, key, fuel) ==
    LET nx == At(h[cur].next, i) IN
    IF fuel > 0 /\ nx # NULL /\ h[nx].key <= key
    THEN AdvanceLE(h, nx, i, key, fuel - 1)
    ELSE cur

\* while (cur->next[i] && cur->next[i]->key < key) cur = cur->next[i];
RECURSIVE Advance(_, _, _, _, _)
Advance(h, cur, i, key, fuel) ==
    LET nx == At(h[cur].next, i) IN
    IF fuel > 0 /\ nx # NULL /\ h[nx].key < key
    THEN Advance(h, nx, i, key, fuel - 1)
    ELSE cur

\* the descent that records update[i] = cur before the walk of level i
RECURSIVE DescendStale(_, _, _, _, _)
DescendStale(h, cur, i, key, update) ==
    IF i < 0 THEN update
    ELSE LET c == Advance(h, cur, i, key, MaxNodes)
         IN DescendStale(h, c, i - 1, key, [update EXCEPT ![i + 1] = cur])

\* for (int i = maxLevel_ - 1; i >= 0; --i) { ...; update[i] = cur; }
RECURSIVE Descend(_, _, _, _, _)
Descend(h, cur, i, key, update) ==
    IF i < 0 THEN update
    ELSE LET c == Advance(h, cur, i, key, MaxNodes)
         IN Descend(h, c, i - 1, key, [update EXCEPT ![i + 1] = c])

\* the update vector of insert and erase
FindUpdate(h, hd, lvl, key) ==
    Descend(h, hd, lvl - 1, key, [i \in 1..lvl |-> NULL])

\* the candidate: cur = cur->next[0] after the descent
Candidate(h, hd, lvl, key) ==
    At(h[At(FindUpdate(h, hd, lvl, key), 0)].next, 0)

\* contains without the key comparison: any candidate counts as found
containsAnyCandidate(h, hd, lvl, key) ==
    Candidate(h, hd, lvl, key) # NULL

\* bool contains(const Key& key) const
contains(h, hd, lvl, key) ==
    LET cur == Candidate(h, hd, lvl, key)
    IN cur # NULL /\ h[cur].key = key

\* --------------------------------------------------------- randomLevel
\* the loop without its third condition, level < maxLevel_ + 1, is the
\* first definition; the loop of the code is the second:
\* while (dist_(rng_) < probability_ && level < maxAllowedLevel_
\*        && level < maxLevel_ + 1) ++level;
\* ds[n] is the n-th value dist_(rng_) yields; every evaluation of the
\* condition draws one.  draws = Len(ds) + 1 tells that ds ran out before
\* the loop ended.
RECURSIVE LevelLoopNoHeightCap(_, _, _, _, _, _)
LevelLoopNoHeightCap(ds, n, level, p, maxAllowed, maxLvl) ==
    IF n > Len(ds) THEN [level |-> level, draws |-> n]
    ELSE IF ds[n] < p /\ level < maxAllowed
         THEN LevelLoopNoHeightCap(ds, n + 1, level + 1, p, maxAllowed, maxLvl)
         ELSE [level |-> level, draws |-> n]

RECURSIVE LevelLoop(_, _, _, _, _, _)
LevelLoop(ds, n, level, p, maxAllowed, maxLvl) ==
    IF n > Len(ds) THEN [level |-> level, draws |-> n]
    ELSE IF ds[n] < p /\ level < maxAllowed /\ level < maxLvl + 1
         THEN LevelLoop(ds, n + 1, level + 1, p, maxAllowed, maxLvl)
         ELSE [level |-> level, draws |-> n]

\* int randomLevel() const
randomLevel(ds, p, maxAllowed, maxLvl) ==
    LevelLoop(ds, 1, 1, p, maxAllowed, maxLvl)

\* the generator after n more draws
Drawn(rng, n) == IF rng + n > MaxDraws THEN MaxDraws ELSE rng + n

\* the sequences of values dist_(rng_) can yield during one call
DrawSeqs == UNION {[1..n -> Draws] : n \in 1..MaxCap}

\* ds is exactly what one call draws: its last value ends the loop
Consumes(ds, p, maxAllowed, maxLvl) ==
    randomLevel(ds, p, maxAllowed, maxLvl).draws = Len(ds)

\* ------------------------------------------------------------ iteration
\* begin() .. end(): Iterator(head_->next[0]), ++ follows next[0]
RECURSIVE Walk(_, _, _, _)
Walk(h, node, i, fuel) ==
    IF node = NULL \/ fuel = 0 THEN <<>>
    ELSE <<h[node].key>> \o Walk(h, At(h[node].next, i), i, fuel - 1)

LevelKeys(h, hd, i) == Walk(h, At(h[hd].next, i), i, MaxNodes)

Iterate(h, hd) == LevelKeys(h, hd, 0)

\* the addresses on level i, in order
RECURSIVE WalkNodes(_, _, _, _)
WalkNodes(h, node, i, fuel) ==
    IF node = NULL \/ fuel = 0 THEN <<>>
    ELSE <<node>> \o WalkNodes(h, At(h[node].next, i), i, fuel - 1)

LevelNodes(h, hd, i) == WalkNodes(h, At(h[hd].next, i), i, MaxNodes)

\* for (int i = maxLevel_ - 1; i >= 0; --i)
\*     os << "Level " << i << ": " << the keys on level i << '\n';
LevelLines(h, hd, lvl) ==
    [j \in 1..lvl |-> [level |-> lvl - j, keys |-> LevelKeys(h, hd, lvl - j)]]

\* the dump that writes the levels from 0 up
PrintBottomUp(h, hd, lvl, p) ==
    IF hd = NULL THEN <<[moved_from |-> TRUE]>>
    ELSE <<[levels |-> lvl, p |-> p]>>
         \o [j \in 1..lvl |-> [level |-> j - 1, keys |-> LevelKeys(h, hd, j - 1)]]

\* void printByLevels(std::ostream& os) const: the lines written to os, the
\* placeholder "SkipList (empty - moved from)" if there is no sentinel, else
\* the header "SkipList (levels = .., p = ..):" and one line per level
printByLevels(h, hd, lvl, p) ==
    IF hd = NULL THEN <<[moved_from |-> TRUE]>>
    ELSE <<[levels |-> lvl, p |-> p]>> \o LevelLines(h, hd, lvl)

\* ------------------------------------------------------------- insert
\* the splice that links the new node into level 0 only
SpliceLevelZero(h, i, newLevel, update, newNode) ==
    LET u == At(update, 0)
    IN  [h EXCEPT ![newNode].next[1] = At(h[u].next, 0), ![u].next[1] = newNode]

\* the splice whose loop stops one level early (i < newLevel - 1)
RECURSIVE SpliceLoopShort(_, _, _, _, _)
SpliceLoopShort(h, i, newLevel, update, newNode) ==
    IF i >= newLevel - 1 THEN h
    ELSE LET u  == At(update, i)
             h1 == [h EXCEPT ![newNode].next[i + 1] = At(h[u].next, i)]
             h2 == [h1 EXCEPT ![u].next[i + 1] = newNode]
         IN SpliceLoopShort(h2, i + 1, newLevel, update, newNode)

\* the splice with its two assignments in the other order:
\*     update[i]->next[i] = newNode; newNode->next[i] = update[i]->next[i];
RECURSIVE SpliceLoopSwapped(_, _, _, _, _)
SpliceLoopSwapped(h, i, newLevel, update, newNode) ==
    IF i >= newLevel THEN h
    ELSE LET u  == At(update, i)
             h1 == [h EXCEPT ![u].next[i + 1] = newNode]
             h2 == [h1 EXCEPT ![newNode].next[i + 1] = At(h1[u].next, i)]
         IN SpliceLoopSwapped(h2, i + 1, newLevel, update, newNode)

\* for (int i = 0; i < newLevel; ++i) {
\*     newNode->next[i] = update[i]->next[i]; update[i]->next[i] = newNode; }
RECURSIVE SpliceLoop(_, _, _, _, _)
SpliceLoop(h, i, newLevel, update, newNode) ==
    IF i >= newLevel THEN h
    ELSE LET u  == At(update, i)
             h1 == [h EXCEPT ![newNode].next[i + 1] = At(h[u].next, i)]
             h2 == [h1 EXCEPT ![u].next[i + 1] = newNode]
         IN SpliceLoop(h2, i + 1, newLevel, update, newNode)

\* if (newLevel > maxLevel_) { head_->next.resize(newLevel, nullptr);
\*     update.resize(newLevel, nullptr);
\*     for (i = maxLevel_; i < newLevel; ++i) update[i] = head_;
\*     maxLevel_ = newLevel; }
GrowHead(h, hd, lvl, newLevel) ==
    IF newLevel > lvl
    THEN [h EXCEPT ![hd].next = Resize(@, newLevel)]
    ELSE h

GrowUpdate(update, hd, lvl, newLevel) ==
    IF newLevel > lvl
    THEN [i \in 1..newLevel |-> IF i <= lvl THEN update[i] ELSE hd]
    ELSE update

\* the growth that forgets maxLevel_ = newLevel
GrowLevelForgotten(lvl, newLevel) == lvl

GrowLevel(lvl, newLevel) == IF newLevel > lvl THEN newLevel ELSE lvl

\* void insert(const Key& key).  allocOk: whether `new Node` succeeds.
\* The result is the heap and maxLevel_ the call leaves, the number of
\* draws it consumed and how it ended.
insert(h, hd, lvl, maxAllowed, p, key, ds, allocOk) ==
    LET update == FindUpdate(h, hd, lvl, key)
        cur    == At(h[At(update, 0)].next, 0)
    IN  IF cur # NULL /\ h[cur].key = key
        THEN [heap |-> h, maxLevel |-> lvl, draws |-> 0, end |-> "duplicate"]
        ELSE
        LET rl       == randomLevel(ds, p, maxAllowed, lvl)
            newLevel == rl.level
            h1       == GrowHead(h, hd, lvl, newLevel)
            update1  == GrowUpdate(update, hd, lvl, newLevel)
            lvl1     == GrowLevel(lvl, newLevel)
        IN  IF ~allocOk
            THEN [heap |-> h1, maxLevel |-> lvl1, draws |-> rl.draws,
                  end |-> "bad_alloc"]
            ELSE
            LET newNode == NewAddr(h1)
                h2      == [h1 EXCEPT ![newNode] = Node(key, newLevel)]
            IN  [heap |-> SpliceLoop(h2, 0, newLevel, update1, newNode),
                 maxLevel |-> lvl1, draws |-> rl.draws, end |-> "inserted"]

\* -------------------------------------------------------------- erase
\* the unlink that takes the node out of level 0 only
UnlinkLevelZero(h, i, lvl, update, cur) ==
    LET u == At(update, 0)
    IN  IF At(h[u].next, 0) = cur
        THEN [h EXCEPT ![u].next[1] = At(h[cur].next, 0)]
        ELSE h

\* for (int i = 0; i < maxLevel_; ++i)
\*     if (update[i]->next[i] == cur) update[i]->next[i] = cur->next[i];
RECURSIVE UnlinkLoop(_, _, _, _, _)
UnlinkLoop(h, i, lvl, update, cur) ==
    IF i >= lvl THEN h
    ELSE LET u == At(update, i)
         IN  IF At(h[u].next, i) = cur
             THEN UnlinkLoop([h EXCEPT ![u].next[i + 1] = At(h[cur].next, i)],
                             i + 1, lvl, update, cur)
             ELSE UnlinkLoop(h, i + 1, lvl, update, cur)

\* while (maxLevel_ > 1 && head_->next[maxLevel_ - 1] == nullptr) {
\*     --maxLevel_; head_->next.pop_back(); }
RECURSIVE ShrinkLoop(_, _, _)
ShrinkLoop(h, hd, lvl) ==
    IF lvl > 1 /\ At(h[hd].next, lvl - 1) = NULL
    THEN ShrinkLoop([h EXCEPT ![hd].next = PopBack(@)], hd, lvl - 1)
    ELSE [heap |-> h, maxLevel |-> lvl]

\* erase without the key comparison: removes whatever candidate it finds
eraseAnyCandidate(h, hd, lvl, key) ==
    LET update == FindUpdate(h, hd, lvl, key)
        cur    == At(h[At(update, 0)].next, 0)
    IN  IF cur = NULL
        THEN [heap |-> h, maxLevel |-> lvl, ret |-> FALSE]
        ELSE
        LET h1 == UnlinkLoop(h, 0, lvl, update, cur)
            h2 == [h1 EXCEPT ![cur] = FreeCell]
            s  == ShrinkLoop(h2, hd, lvl)
        IN  [heap |-> s.heap, maxLevel |-> s.maxLevel, ret |-> TRUE]

\* bool erase(const Key& key)
erase(h, hd, lvl, key) ==
    LET update == FindUpdate(h, hd, lvl, key)
        cur    == At(h[At(update, 0)].next, 0)
    IN  IF cur = NULL \/ h[cur].key # key
        THEN [heap |-> h, maxLevel |-> lvl, ret |-> FALSE]
        ELSE
        LET h1 == UnlinkLoop(h, 0, lvl, update, cur)
            h2 == [h1 EXCEPT ![cur] = FreeCell]        \* delete cur
            s  == ShrinkLoop(h2, hd, lvl)
        IN  [heap |-> s.heap, maxLevel |-> s.maxLevel, ret |-> TRUE]

\* ------------------------------------------- destruction and transfer
\* Node* cur = head_->next[0];
\* while (cur) { Node* next = cur->next[0]; delete cur; cur = next; }
RECURSIVE ReleaseLoop(_, _, _)
ReleaseLoop(h, cur, fuel) ==
    IF cur = NULL \/ fuel = 0 THEN h
    ELSE ReleaseLoop([h EXCEPT ![cur] = FreeCell], At(h[cur].next, 0), fuel - 1)

\* the release that forgets `delete head_`
ReleaseNodesOnly(h, hd) ==
    IF hd = NULL THEN h
    ELSE ReleaseLoop(h, At(h[hd].next, 0), MaxNodes)

\* if (head_) { release loop; delete head_; }
ReleaseAll(h, hd) ==
    IF hd = NULL THEN h
    ELSE [ReleaseLoop(h, At(h[hd].next, 0), MaxNodes) EXCEPT ![hd] = FreeCell]

\* a reset that allocates nothing
resetToNothing(h, hd, lvl) == [heap |-> h, head |-> hd]

\* if (!head_) head_ = new Node(Key(), maxLevel_);
\* (resetToEmpty, and the same statement in both move operations)
resetToEmpty(h, hd, lvl) ==
    IF hd = NULL
    THEN [heap |-> [h EXCEPT ![NewAddr(h)] = Node(0, lvl)], head |-> NewAddr(h)]
    ELSE [heap |-> h, head |-> hd]

\* a plain copy where std::exchange was meant: the source keeps its value
CopiedTo(f, dst, src, v) == [f EXCEPT ![dst] = f[src]]

\* std::exchange(obj, v): the old value goes to the destination, v stays
ExchangeTo(f, dst, src, v) == [f EXCEPT ![dst] = f[src], ![src] = v]

\* ---------------------------------------------- canonical heap layout
\* the sentinel and the level-0 chain of one list
ReachSeq(h, hd) == IF hd = NULL THEN <<>> ELSE <<hd>> \o LevelNodes(h, hd, 0)

RECURSIVE Dedupe(_, _)
Dedupe(sq, seen) ==
    IF sq = <<>> THEN <<>>
    ELSE IF Head(sq) \in seen THEN Dedupe(Tail(sq), seen)
         ELSE <<Head(sq)>> \o Dedupe(Tail(sq), seen \cup {Head(sq)})

RECURSIVE Ascending(_)
Ascending(S) ==
    IF S = {} THEN <<>>
    ELSE LET m == CHOOSE x \in S : \A y \in S : x <= y
         IN <<m>> \o Ascending(S \ {m})

Range(sq) == {sq[i] : i \in 1..Len(sq)}

\* the addresses in canonical order: list 1's cells, list 2's, the others
Order(h, hds) ==
    LET r == Dedupe(ReachSeq(h, hds[1]) \o ReachSeq(h, hds[2]), {})
    IN r \o Ascending(NodeIds \ Range(r))

\* what operator new and delete leave: the same heap, addresses renamed
Canon(h, hds) ==
    LET ord == Order(h, hds)
        to(a) == IF a = NULL THEN NULL ELSE CHOOSE i \in NodeIds : ord[i] = a
    IN [heap |-> [n \in NodeIds |->
                    [h[ord[n]] EXCEPT !.next = [i \in 1..Len(@) |-> to(@[i])]]],
        head |-> [l \in Lists |-> to(hds[l])]]

\* ------------------------------------------------------------------ Init
Call(name, dst, src) == [name |-> name, dst |-> dst, src |-> src]

NoList == "none"

\* SkipList(double probability, int maxAllowedLevel): list 1 is constructed,
\* list 2 is not yet.
Init ==
    \E a \in Args :
        /\ heap = [n \in NodeIds |-> IF n = 1 THEN Node(0, 1) ELSE FreeCell]
        /\ live = [l \in Lists |-> l = 1]
        /\ head_ = [l \in Lists |-> IF l = 1 THEN 1 ELSE NULL]
        /\ maxLevel_ = [l \in Lists |-> IF l = 1 THEN 1 ELSE 0]
        /\ maxAllowedLevel_ = [l \in Lists |-> IF l = 1 THEN a[2] ELSE 0]
        /\ probability_ = [l \in Lists |-> IF l = 1 THEN a[1] ELSE 0]
        /\ rng_ = [l \in Lists |-> 0]
        /\ ref = [l \in Lists |-> {}]
        /\ op = Call("construct", NoList, NoList)
        /\ ret = "void"
        /\ out = <<>>

\* --------------------------------------------------------------- actions
\* the heap and the sentinels an operation leaves
Leaves(h, hds) ==
    LET c == Canon(h, hds)
    IN  /\ heap' = c.heap
        /\ head_' = c.head

\* SkipList(double probability, int maxAllowedLevel)
Construct(l, p, m) ==
    /\ ~live[l]
    /\ HasFree(heap)
    /\ rng_' = [rng_ EXCEPT ![l] = 0]                       \* rng_.seed(rd())
    /\ maxLevel_' = [maxLevel_ EXCEPT ![l] = 1]
    /\ maxAllowedLevel_' = [maxAllowedLevel_ EXCEPT ![l] = m]
    /\ probability_' = [probability_ EXCEPT ![l] = p]
    /\ Leaves([heap EXCEPT ![NewAddr(heap)] = Node(0, 1)],
              [head_ EXCEPT ![l] = NewAddr(heap)])
    /\ live' = [live EXCEPT ![l] = TRUE]
    /\ ref' = [ref EXCEPT ![l] = {}]
    /\ op' = Call("construct", NoList, NoList)
    /\ ret' = "void"
    /\ out' = <<>>

\* ~SkipList()
Destroy(l) ==
    /\ live[l]
    /\ Leaves(ReleaseAll(heap, head_[l]), [head_ EXCEPT ![l] = NULL])
    /\ live' = [live EXCEPT ![l] = FALSE]
    /\ maxLevel_' = [maxLevel_ EXCEPT ![l] = 0]
    /\ maxAllowedLevel_' = [maxAllowedLevel_ EXCEPT ![l] = 0]
    /\ probability_' = [probability_ EXCEPT ![l] = 0]
    /\ rng_' = [rng_ EXCEPT ![l] = 0]
    /\ ref' = [ref EXCEPT ![l] = {}]
    /\ op' = Call("destroy", NoList, NoList)
    /\ ret' = "void"
    /\ out' = <<>>

\* the outcomes `new Node` can have: it succeeds only while a cell is free
AllocOutcomes == {b \in BOOLEAN : b => HasFree(heap)}

\* list.insert(key)
Insert(l, key) ==
    /\ live[l]
    /\ \E ds \in {d \in DrawSeqs : Consumes(d, probability_[l],
                                            maxAllowedLevel_[l], maxLevel_[l])},
          allocOk \in AllocOutcomes :
           LET r == insert(heap, head_[l], maxLevel_[l], maxAllowedLevel_[l],
                           probability_[l], key, ds, allocOk)
           IN  /\ Leaves(r.heap, head_)
               /\ maxLevel_' = [maxLevel_ EXCEPT ![l] = r.maxLevel]
               /\ rng_' = [rng_ EXCEPT ![l] = Drawn(@, r.draws)]
               /\ ref' = [ref EXCEPT ![l] = IF r.end = "bad_alloc" THEN @
                                            ELSE @ \cup {key}]
               /\ ret' = r.end
    /\ op' = Call("insert", NoList, NoList)
    /\ out' = <<>>
    /\ UNCHANGED <<live, maxAllowedLevel_, probability_>>

\* list.erase(key)
Erase(l, key) ==
    /\ live[l]
    /\ LET r == erase(heap, head_[l], maxLevel_[l], key)
       IN  /\ Leaves(r.heap, head_)
           /\ maxLevel_' = [maxLevel_ EXCEPT ![l] = r.maxLevel]
           /\ ret' = r.ret
    /\ ref' = [ref EXCEPT ![l] = @ \ {key}]
    /\ op' = Call("erase", NoList, NoList)
    /\ out' = <<>>
    /\ UNCHANGED <<live, maxAllowedLevel_, probability_, rng_>>

\* contains drawing from the mutable generator
ContainsDrawing(l, key) ==
    /\ live[l]
    /\ ret' = contains(heap, head_[l], maxLevel_[l], key)
    /\ rng_' = [rng_ EXCEPT ![l] = Drawn(@, 1)]
    /\ op' = Call("contains", NoList, NoList)
    /\ out' = <<>>
    /\ UNCHANGED <<heap, live, head_, maxLevel_, maxAllowedLevel_, probability_, ref>>

\* list.contains(key)
Contains(l, key) ==
    /\ live[l]
    /\ ret' = contains(heap, head_[l], maxLevel_[l], key)
    /\ op' = Call("contains", NoList, NoList)
    /\ out' = <<>>
    /\ UNCHANGED <<listVars, ref>>

\* for (auto it = list.begin(); it != list.end(); ++it) ... *it ...
IterateAll(l) ==
    /\ live[l]
    /\ out' = Iterate(heap, head_[l])
    /\ op' = Call("iterate", NoList, NoList)
    /\ ret' = "void"
    /\ UNCHANGED <<listVars, ref>>

\* list.printByLevels(os)
PrintByLevels(l) ==
    /\ live[l]
    /\ out' = printByLevels(heap, head_[l], maxLevel_[l], probability_[l])
    /\ op' = Call("print", NoList, NoList)
    /\ ret' = "void"
    /\ UNCHANGED <<listVars, ref>>

\* the member transfer shared by SkipList(SkipList&&) and operator=(SkipList&&),
\* on the heap h the destination's old nodes have left:
\*   head_(std::exchange(other.head_, nullptr)),
\*   maxLevel_(std::exchange(other.maxLevel_, 1)), ...
\*   if (!head_) head_ = new Node(Key(), maxLevel_);
\*   other.resetToEmpty();
Transfer(h, dst, src) ==
    LET lvl   == ExchangeTo(maxLevel_, dst, src, 1)
        mine  == resetToEmpty(h, head_[src], lvl[dst])
        other == resetToEmpty(mine.heap, NULL, lvl[src])
    IN  /\ HasFree(h)
        /\ Leaves(other.heap, [head_ EXCEPT ![dst] = mine.head, ![src] = other.head])
        /\ maxLevel_' = lvl
        /\ maxAllowedLevel_' = [maxAllowedLevel_ EXCEPT ![dst] = maxAllowedLevel_[src]]
        /\ probability_' = [probability_ EXCEPT ![dst] = probability_[src]]
        /\ rng_' = [rng_ EXCEPT ![dst] = rng_[src]]
        /\ ref' = ExchangeTo(ref, dst, src, {})

\* SkipList dst = std::move(src);
MoveConstruct(dst, src) ==
    /\ ~live[dst] /\ live[src]
    /\ Transfer(heap, dst, src)
    /\ live' = [live EXCEPT ![dst] = TRUE]
    /\ op' = Call("move_construct", dst, src)
    /\ ret' = "void"
    /\ out' = <<>>

\* move assignment without the this != &other test
MoveAssignUnguarded(dst, src) ==
    /\ live[dst] /\ live[src]
    /\ Transfer(ReleaseAll(heap, head_[dst]), dst, src)
    /\ op' = Call("move_assign", dst, src)
    /\ ret' = "void"
    /\ out' = <<>>
    /\ UNCHANGED live

\* dst = std::move(src);
MoveAssign(dst, src) ==
    /\ live[dst] /\ live[src]
    /\ IF dst # src
       THEN Transfer(ReleaseAll(heap, head_[dst]), dst, src)
       ELSE UNCHANGED <<heap, head_, maxLevel_, maxAllowedLevel_, probability_,
                        rng_, ref>>
    /\ op' = Call("move_assign", dst, src)
    /\ ret' = "void"
    /\ out' = <<>>
    /\ UNCHANGED live

Next ==
    \/ \E l \in Lists, a \in Args : Construct(l, a[1], a[2])
    \/ \E l \in Lists : Destroy(l)
    \/ \E l \in Lists, k \in Keys : Insert(l, k)
    \/ \E l \in Lists, k \in Keys : Erase(l, k)
    \/ \E l \in Lists, k \in Keys : Contains(l, k)
    \/ \E l \in Lists : IterateAll(l)
    \/ \E l \in Lists : PrintByLevels(l)
    \/ \E dst \in Lists, src \in Lists : MoveConstruct(dst, src)
    \/ \E dst \in Lists, src \in Lists : MoveAssign(dst, src)

Spec == Init /\ [][Next]_vars

\* A program with one list, constructed with any level cap up to MaxCap,
\* that inserts and erases: SkipList<int> list(0.5, m); list.insert(k); ...
TallInit ==
    \E m \in 1..MaxCap :
        /\ heap = [n \in NodeIds |-> IF n = 1 THEN Node(0, 1) ELSE FreeCell]
        /\ live = [l \in Lists |-> l = 1]
        /\ head_ = [l \in Lists |-> IF l = 1 THEN 1 ELSE NULL]
        /\ maxLevel_ = [l \in Lists |-> IF l = 1 THEN 1 ELSE 0]
        /\ maxAllowedLevel_ = [l \in Lists |-> IF l = 1 THEN m ELSE 0]
        /\ probability_ = [l \in Lists |-> IF l = 1 THEN 50 ELSE 0]
        /\ rng_ = [l \in Lists |-> 0]
        /\ ref = [l \in Lists |-> {}]
        /\ op = Call("construct", NoList, NoList)
        /\ ret = "void"
        /\ out = <<>>

TallNext ==
    \/ \E k \in Keys : Insert(1, k)
    \/ \E k \in Keys : Erase(1, k)
    \/ \E k \in Keys : Contains(1, k)
    \/ PrintByLevels(1)

TallSpec == TallInit /\ [][TallNext]_vars

\* ------------------------------------------------------- well-formedness
TypeOK ==
    /\ \A l \in Lists : live[l] => head_[l] \in NodeIds /\ heap[head_[l]].alloc
    /\ \A n \in NodeIds : \A i \in 1..Len(heap[n].next) :
           heap[n].next[i] # NULL => heap[heap[n].next[i]].alloc

\* ---------------------------------------------------------------- claims
LiveLists == {l \in Lists : live[l]}

\* the keys a level-0 walk of list l visits
Keyseq(l) == Iterate(heap, head_[l])

StrictlyAscending(sq) == \A i \in 1..(Len(sq) - 1) : sq[i] < sq[i + 1]

Without(sq, k) == SelectSeq(sq, LAMBDA x : x # k)

\* C1: after any sequence of insert and erase calls, contains(k) is true
\* exactly for the keys of the reference set (inserted and not erased
\* since), whatever levels were drawn.
C1_ContainsIffMember ==
    \A l \in LiveLists : \A k \in Keys :
        contains(heap, head_[l], maxLevel_[l], k) <=> (k \in ref[l])

\* a key has just been erased from a two-level list that keeps another key
C1_Witness ==
    /\ op.name = "erase" /\ ret = TRUE
    /\ \E l \in LiveLists : \E k \in Keys :
        /\ maxLevel_[l] >= 2
        /\ ref[l] # {} /\ k \notin ref[l]
        /\ ~contains(heap, head_[l], maxLevel_[l], k)

\* C2: in every reachable state the level-0 walk from just past the
\* sentinel to the absent link visits the keys in strictly ascending order,
\* none twice, and visits exactly the keys currently in the list.
C2_IterationAscending ==
    \A l \in LiveLists :
        /\ StrictlyAscending(Keyseq(l))
        /\ Range(Keyseq(l)) = ref[l]
        /\ Len(Keyseq(l)) = Cardinality(ref[l])

\* an iteration has just yielded two keys
C2_Witness ==
    /\ op.name = "iterate"
    /\ Len(out) >= 2
    /\ \E l \in LiveLists : out = Keyseq(l) /\ maxLevel_[l] >= 2

\* C3: erase(k) of an absent key returns false and leaves every cell of the
\* heap and the height as they are; erase(k) of a present key returns true
\* and leaves the key sequence without k, the other keys in their order.
C3_Erase ==
    \A l \in LiveLists : \A k \in Keys :
        LET r == erase(heap, head_[l], maxLevel_[l], k)
        IN  IF k \in Range(Keyseq(l))
            THEN /\ r.ret = TRUE
                 /\ Iterate(r.heap, head_[l]) = Without(Keyseq(l), k)
                 /\ Len(Iterate(r.heap, head_[l])) = Len(Keyseq(l)) - 1
            ELSE /\ r.ret = FALSE
                 /\ r.heap = heap
                 /\ r.maxLevel = maxLevel_[l]

\* erase has just returned false on a two-level list that holds a key
C3_Witness ==
    /\ op.name = "erase" /\ ret = FALSE
    /\ \E l \in LiveLists : maxLevel_[l] >= 2 /\ ref[l] # {} /\ ref[l] # Keys

\* C4: insert(k) of a key already present changes nothing: every cell of
\* the heap (key sequence, forward links of every node, the sentinel's link
\* count) and the height are as before, whatever would have been drawn.
C4_InsertDuplicate ==
    \A l \in LiveLists : \A k \in Range(Keyseq(l)) :
        \A ds \in DrawSeqs, allocOk \in AllocOutcomes :
            LET r == insert(heap, head_[l], maxLevel_[l], maxAllowedLevel_[l],
                            probability_[l], k, ds, allocOk)
            IN  /\ r.end = "duplicate"
                /\ r.heap = heap
                /\ r.maxLevel = maxLevel_[l]
                /\ r.draws = 0

\* insert has just found its key present, in a two-level list
C4_Witness ==
    /\ op.name = "insert" /\ ret = "duplicate"
    /\ \E l \in LiveLists : maxLevel_[l] >= 2 /\ ref[l] # {}

\* C5: for maxAllowedLevel >= 1, after any sequence of insert, erase and
\* move operations 1 <= height <= maxAllowedLevel, the sentinel has exactly
\* height links, and every key node has at least 1 and at most height links.
C5_HeightBounds ==
    \A l \in LiveLists :
        /\ 1 <= maxLevel_[l] /\ maxLevel_[l] <= maxAllowedLevel_[l]
        /\ Len(heap[head_[l]].next) = maxLevel_[l]
        /\ \A n \in Range(LevelNodes(heap, head_[l], 0)) :
               1 <= Len(heap[n].next) /\ Len(heap[n].next) <= maxLevel_[l]

\* a list grown to its full height by one of its nodes has just been moved
C5_Witness ==
    /\ op.name \in {"move_construct", "move_assign"} /\ op.dst # op.src
    /\ LET l == op.dst
       IN  /\ maxLevel_[l] = maxAllowedLevel_[l] /\ maxLevel_[l] >= 2
           /\ \E n \in Range(LevelNodes(heap, head_[l], 0)) :
                  Len(heap[n].next) = maxLevel_[l]

\* the constructed list: an empty heap with one sentinel
FreshHeap == [n \in NodeIds |-> IF n = 1 THEN Node(0, 1) ELSE FreeCell]

\* what the queries tell of a list: every level's keys, the height, the
\* keys contains finds
Obs(h, hd, lvl, p) ==
    [print  |-> printByLevels(h, hd, lvl, p),
     height |-> lvl,
     found  |-> {k \in Keys : contains(h, hd, lvl, k)}]

\* the key and the number of links of every node, in level-0 order
Spans(h, hd) ==
    LET ns == LevelNodes(h, hd, 0)
    IN  [i \in 1..Len(ns) |-> <<h[ns[i]].key, Len(h[ns[i]].next)>>]

Moves == {"move_construct", "move_assign"}

\* C6: move construction and move assignment from S into another list D
\* leave D with S's previous key sequence, height, links on every level,
\* maximum height and probability, and leave S empty, of height 1, with a
\* sentinel of its own whose single link is absent.
C6_MoveTransfers ==
    [][(op'.name \in Moves /\ op'.dst # op'.src) =>
        LET d == op'.dst
            s == op'.src
        IN  /\ Iterate(heap', head_'[d]) = Iterate(heap, head_[s])
            /\ maxLevel_'[d] = maxLevel_[s]
            /\ printByLevels(heap', head_'[d], maxLevel_'[d], probability_'[d])
                   = printByLevels(heap, head_[s], maxLevel_[s], probability_[s])
            /\ Spans(heap', head_'[d]) = Spans(heap, head_[s])
            /\ Len(heap'[head_'[d]].next) = Len(heap[head_[s]].next)
            /\ maxAllowedLevel_'[d] = maxAllowedLevel_[s]
            /\ probability_'[d] = probability_[s]
            /\ live'[s] /\ live'[d]
            /\ head_'[s] \in NodeIds \ {head_'[d]}
            /\ head_'[s] \notin Range(LevelNodes(heap', head_'[d], 0))
            /\ heap'[head_'[s]] = Node(0, 1)
            /\ maxLevel_'[s] = 1
            /\ Iterate(heap', head_'[s]) = <<>>
    ]_vars

\* a two-level list holding a key has just been move-assigned
C6_Witness ==
    /\ op.name = "move_assign" /\ op.dst # op.src
    /\ ref[op.dst] # {} /\ maxLevel_[op.dst] >= 2
    /\ Iterate(heap, head_[op.src]) = <<>>

\* C7: if `new Node` fails during insert(k) of a fresh key, the list is as
\* before the call: same heap (key sequence, every link, the sentinel's
\* link count) and same height, for every drawn level.
C7_AllocFailureLeavesList ==
    [][(op'.name = "insert" /\ ret' = "bad_alloc") =>
        /\ heap' = heap
        /\ head_' = head_
        /\ maxLevel_' = maxLevel_
    ]_vars

\* C8: a moved-from list is a usable empty list: no live list is ever
\* without its sentinel, and right after a move the source answers every
\* query, and every insert and erase, as a freshly constructed list of the
\* same probability and maximum height does.
C8_MovedFromUsable ==
    /\ \A l \in LiveLists : head_[l] # NULL /\ heap[head_[l]].alloc
    /\ (op.name \in Moves /\ op.dst # op.src) =>
        LET s  == op.src
            hd == head_[s]
            p  == probability_[s]
            m  == maxAllowedLevel_[s]
        IN  /\ live[s]
            /\ Len(heap[hd].next) = 1
            /\ Obs(heap, hd, maxLevel_[s], p) = Obs(FreshHeap, 1, 1, p)
            /\ \A k \in Keys :
                /\ erase(heap, hd, maxLevel_[s], k).ret
                       = erase(FreshHeap, 1, 1, k).ret
                /\ \A ds \in DrawSeqs, allocOk \in AllocOutcomes :
                    LET a == insert(heap, hd, maxLevel_[s], m, p, k, ds, allocOk)
                        b == insert(FreshHeap, 1, 1, m, p, k, ds, allocOk)
                    IN  /\ a.end = b.end
                        /\ a.draws = b.draws
                        /\ a.maxLevel = b.maxLevel
                        /\ Obs(a.heap, hd, a.maxLevel, p)
                               = Obs(b.heap, 1, b.maxLevel, p)

\* a two-level list holding a key has just been moved out of
C8_Witness ==
    /\ op.name = "move_construct" /\ op.dst # op.src
    /\ ref[op.dst] # {} /\ maxLevel_[op.dst] >= 2
    /\ live[op.src] /\ maxLevel_[op.src] = 1
    /\ maxAllowedLevel_[op.src] >= 2

\* C9: move-assigning a list to itself changes nothing: key sequence,
\* links, height, maximum height and probability stay, no node is released.
C9_SelfAssignNoOp ==
    [][(op'.name = "move_assign" /\ op'.dst = op'.src) =>
        UNCHANGED <<heap, live, head_, maxLevel_, maxAllowedLevel_,
                    probability_, rng_>>
    ]_vars

\* a two-level list holding a key has just been assigned to itself
C9_Witness ==
    /\ op.name = "move_assign" /\ op.dst = op.src
    /\ ref[op.dst] # {} /\ maxLevel_[op.dst] >= 2

\* C10: contains, iteration and printByLevels never change the list: the
\* heap, the sentinel, the height and the generator are as before.
C10_QueriesChangeNothing ==
    [][op'.name \in {"contains", "iterate", "print"} =>
        UNCHANGED <<heap, live, head_, maxLevel_, maxAllowedLevel_,
                    probability_, rng_>>
    ]_vars

\* contains has just found a key in a two-level list
C10_Witness ==
    /\ op.name = "contains" /\ ret = TRUE
    /\ \E l \in LiveLists : maxLevel_[l] >= 2 /\ ref[l] # {}

\* the cells list l owns: its sentinel and the nodes of its level-0 chain
Owned(l) == Range(ReachSeq(heap, head_[l]))

Distinct(sq) == \A i, j \in 1..Len(sq) : sq[i] = sq[j] => i = j

\* C11: between operations every allocated cell is the sentinel of exactly
\* one live list or a key node on exactly one live list's level-0 chain, no
\* cell belongs to two lists, every forward link on every level refers to an
\* allocated node of the same list, and destruction (also the release that
\* move assignment starts with) visits every cell of the list once and
\* releases exactly those cells.
C11_Ownership ==
    /\ \A l \in LiveLists :
        /\ Distinct(ReachSeq(heap, head_[l]))
        /\ Owned(l) \subseteq Allocated(heap)
        /\ \A n \in Owned(l) : \A i \in 1..Len(heap[n].next) :
               heap[n].next[i] # NULL => heap[n].next[i] \in Owned(l) \ {head_[l]}
        /\ LET h == ReleaseAll(heap, head_[l])
           IN  /\ Allocated(h) = Allocated(heap) \ Owned(l)
               /\ \A n \in NodeIds \ Owned(l) : h[n] = heap[n]
    /\ \A l1, l2 \in LiveLists : l1 # l2 => Owned(l1) \cap Owned(l2) = {}
    /\ Allocated(heap) = UNION {Owned(l) : l \in LiveLists}

\* two live lists own every cell of the heap between them, a move has just
\* handed a two-level node from one to the other
C11_Witness ==
    /\ op.name \in Moves /\ op.dst # op.src
    /\ live[op.dst] /\ live[op.src]
    /\ Allocated(heap) = NodeIds
    /\ \E n \in Owned(op.dst) \ {head_[op.dst]} : Len(heap[n].next) >= 2
    /\ Owned(op.src) = {head_[op.src]}

\* a is b with some elements left out, the others in their order
RECURSIVE IsSubseq(_, _)
IsSubseq(a, b) ==
    IF a = <<>> THEN TRUE
    ELSE IF b = <<>> THEN FALSE
    ELSE IF Head(a) = Head(b) THEN IsSubseq(Tail(a), Tail(b))
    ELSE IsSubseq(a, Tail(b))

\* C12: in every reachable state, for every level i > 0 the nodes on the
\* level-i chain from the sentinel are an order-preserving subsequence of
\* the nodes on the level-(i-1) chain, and a node with L links is on exactly
\* the levels 0..L-1.
C12_LevelsNested ==
    \A l \in LiveLists :
        /\ \A i \in 1..(maxLevel_[l] - 1) :
               IsSubseq(LevelNodes(heap, head_[l], i),
                        LevelNodes(heap, head_[l], i - 1))
        /\ \A n \in Range(LevelNodes(heap, head_[l], 0)) :
               \A i \in 0..(maxLevel_[l] - 1) :
                   (n \in Range(LevelNodes(heap, head_[l], i)))
                       <=> (i < Len(heap[n].next))

\* insert has just left two nodes of which only one is on level 1
C12_Witness ==
    /\ op.name = "insert" /\ ret = "inserted"
    /\ \E l \in LiveLists :
        /\ maxLevel_[l] >= 2
        /\ Len(LevelNodes(heap, head_[l], 0)) >= 2
        /\ Len(LevelNodes(heap, head_[l], 1)) = 1

\* the largest number of links of a key node of list l (0 if there is none)
MaxSpan(l) ==
    LET ls == {Len(heap[n].next) : n \in Range(LevelNodes(heap, head_[l], 0))}
    IN  IF ls = {} THEN 0 ELSE CHOOSE m \in ls : \A x \in ls : x <= m

\* C13: the height is minimal after every completed insert, erase or move:
\* height = 1 or the sentinel's topmost link is not absent, so the height of
\* a non-empty list is the largest link count of its key nodes and the
\* height of an empty list is 1.
C13_HeightMinimal ==
    (\/ op.name = "erase"
     \/ op.name \in Moves
     \/ op.name = "insert" /\ ret # "bad_alloc")
    => \A l \in LiveLists :
        /\ maxLevel_[l] = 1 \/ At(heap[head_[l]].next, maxLevel_[l] - 1) # NULL
        /\ maxLevel_[l] = IF MaxSpan(l) = 0 THEN 1 ELSE MaxSpan(l)

\* C14: for maxAllowedLevel >= 1 and every sequence of values the draws can
\* yield, randomLevel returns a level L with 1 <= L <= maxAllowedLevel and
\* L <= height + 1, and no insert raises the height by more than one.
C14_RandomLevelRange ==
    /\ [](\A l \in LiveLists : \A ds \in DrawSeqs :
            LET L == randomLevel(ds, probability_[l], maxAllowedLevel_[l],
                                 maxLevel_[l]).level
            IN  /\ 1 <= L
                /\ L <= maxAllowedLevel_[l]
                /\ L <= maxLevel_[l] + 1)
    /\ [][op'.name = "insert" =>
            \A l \in Lists : maxLevel_'[l] <= maxLevel_[l] + 1]_vars

\* insert has just added a node to a list whose height is two or more below
\* its cap: draws that are all below the probability stop at height + 1
C14_Witness ==
    /\ op.name = "insert" /\ ret = "inserted"
    /\ \E l \in LiveLists :
        /\ maxLevel_[l] + 1 < maxAllowedLevel_[l]
        /\ \E ds \in DrawSeqs :
            /\ Len(ds) > maxLevel_[l] + 1
            /\ \A i \in 1..Len(ds) : ds[i] < probability_[l]
            /\ randomLevel(ds, probability_[l], maxAllowedLevel_[l],
                           maxLevel_[l]).level = maxLevel_[l] + 1

\* the nodes of sq with node n put directly after the last one whose key is
\* less than k (first, if there is none)
AfterLastLess(h, sq, n, k) ==
    LET less == {j \in 1..Len(sq) : h[sq[j]].key < k}
        m    == IF less = {} THEN 0 ELSE CHOOSE j \in less : \A x \in less : x <= j
    IN  SubSeq(sq, 1, m) \o <<n>> \o SubSeq(sq, m + 1, Len(sq))

\* C15: insert(k) of an absent key with drawn level L allocates one node and
\* adds one node to the list; on each level below L the new node stands
\* directly after the last node whose key is less than k, the levels from L
\* up are as before, every earlier node keeps its key, its link count and its
\* place among the others; the height becomes L if L exceeds it, and then
\* the new node is alone on the added levels.
C15_InsertSplices ==
    \A l \in LiveLists : \A k \in Keys \ Range(Keyseq(l)) :
        \A ds \in {d \in DrawSeqs : Consumes(d, probability_[l],
                                            maxAllowedLevel_[l], maxLevel_[l])} :
            HasFree(heap) =>
            LET hd   == head_[l]
                lvl  == maxLevel_[l]
                L    == randomLevel(ds, probability_[l], maxAllowedLevel_[l],
                                    lvl).level
                r    == insert(heap, hd, lvl, maxAllowedLevel_[l],
                               probability_[l], k, ds, TRUE)
                new  == NewAddr(heap)
                old(i) == IF i < lvl THEN LevelNodes(heap, hd, i) ELSE <<>>
            IN  /\ r.end = "inserted"
                /\ Allocated(r.heap) = Allocated(heap) \cup {new}
                /\ Len(LevelNodes(r.heap, hd, 0)) = Len(old(0)) + 1
                /\ r.heap[new].key = k /\ Len(r.heap[new].next) = L
                /\ r.maxLevel = (IF L > lvl THEN L ELSE lvl)
                /\ Len(r.heap[hd].next) = r.maxLevel
                /\ \A i \in 0..(r.maxLevel - 1) :
                       LevelNodes(r.heap, hd, i) =
                           IF i < L THEN AfterLastLess(heap, old(i), new, k)
                           ELSE old(i)
                /\ \A n \in Range(old(0)) :
                       /\ r.heap[n].key = heap[n].key
                       /\ Len(r.heap[n].next) = Len(heap[n].next)

\* after an insert a list of height 3 holds two nodes, one of them alone on
\* the top level
C15_Witness ==
    /\ op.name = "insert" /\ ret = "inserted"
    /\ \E l \in LiveLists :
        /\ maxLevel_[l] >= 3
        /\ Len(LevelNodes(heap, head_[l], 0)) >= 2
        /\ Len(LevelNodes(heap, head_[l], maxLevel_[l] - 1)) = 1

\* no forward link of an allocated cell of h refers to node n
Unreferenced(h, n) ==
    \A c \in Allocated(h) : \A i \in 1..Len(h[c].next) : h[c].next[i] # n

\* C16: when erase(k) finds k, the node is out of every level before it is
\* released: after the unlink loop, and after the call, no forward link of
\* the sentinel or of a remaining node refers to it, and every level holds
\* the nodes it held, without the removed one, in their order and with their
\* link counts.
C16_EraseUnlinks ==
    \A l \in LiveLists : \A k \in Range(Keyseq(l)) :
        LET hd     == head_[l]
            lvl    == maxLevel_[l]
            update == FindUpdate(heap, hd, lvl, k)
            cur    == Candidate(heap, hd, lvl, k)
            h1     == UnlinkLoop(heap, 0, lvl, update, cur)
            r      == erase(heap, hd, lvl, k)
            rest(i) == SelectSeq(LevelNodes(heap, hd, i), LAMBDA n : n # cur)
        IN  /\ heap[cur].key = k
            /\ h1[cur] = heap[cur]
            /\ Unreferenced(h1, cur)
            /\ r.ret = TRUE
            /\ Allocated(r.heap) = Allocated(heap) \ {cur}
            /\ Unreferenced(r.heap, cur)
            /\ \A i \in 0..(lvl - 1) :
                   IF i < r.maxLevel
                   THEN LevelNodes(r.heap, hd, i) = rest(i)
                   ELSE rest(i) = <<>>
            /\ \A n \in Range(rest(0)) :
                   /\ r.heap[n].key = heap[n].key
                   /\ Len(r.heap[n].next) = Len(heap[n].next)

\* erase has just removed a node and left a node of two or more links
C16_Witness ==
    /\ op.name = "erase" /\ ret = TRUE
    /\ \E l \in LiveLists :
        /\ maxLevel_[l] >= 2
        /\ \E n \in Range(LevelNodes(heap, head_[l], 0)) : Len(heap[n].next) >= 2

\* the level-i chain from node reaches the absent link within fuel steps
RECURSIVE Ends(_, _, _, _)
Ends(h, node, i, fuel) ==
    IF node = NULL THEN TRUE
    ELSE IF fuel = 0 THEN FALSE
    ELSE Ends(h, At(h[node].next, i), i, fuel - 1)

\* C17: every loop of every operation ends.  In every reachable state, for
\* every live list: the sentinel has exactly height >= 1 links (the loops
\* over the levels and the shrink loop count down to a floor); on every
\* level the chain from the sentinel reaches the absent link within as many
\* steps as there are other allocated cells, and every link of a key node
\* leads to a greater key (the search walks, the walk of printByLevels, the
\* iteration and the release loops follow such a chain); and randomLevel
\* stops within maxAllowedLevel draws whatever they yield.
C17_OperationsTerminate ==
    \A l \in LiveLists :
        LET hd == head_[l]
            lvl == maxLevel_[l]
        IN  /\ lvl >= 1 /\ Len(heap[hd].next) = lvl
            /\ \A i \in 0..(lvl - 1) :
                   Ends(heap, At(heap[hd].next, i), i,
                        Cardinality(Allocated(heap)) - 1)
            /\ \A n \in Owned(l) \ {hd} : \A i \in 1..Len(heap[n].next) :
                   heap[n].next[i] # NULL =>
                       heap[n].key < heap[heap[n].next[i]].key
            /\ \A ds \in DrawSeqs :
                   Len(ds) >= maxAllowedLevel_[l] =>
                       randomLevel(ds, probability_[l], maxAllowedLevel_[l],
                                   lvl).draws <= Len(ds)

\* printByLevels has just walked both levels of a list of two nodes
C17_Witness ==
    /\ op.name = "print" /\ Len(out) >= 3
    /\ \E l \in LiveLists :
        /\ out = printByLevels(heap, head_[l], maxLevel_[l], probability_[l])
        /\ Len(out[Len(out)].keys) >= 2
        /\ Len(out[2].keys) >= 1

\* the last node of sq whose key is less than k, hd if there is none
LastLess(h, sq, hd, k) ==
    LET less == {j \in 1..Len(sq) : h[sq[j]].key < k}
    IN  IF less = {} THEN hd
        ELSE sq[CHOOSE j \in less : \A x \in less : x <= j]

\* every link of a cell of h that differs in g is link i of u[i]
OnlyAt(h, g, u) ==
    \A n \in Allocated(h) \cap Allocated(g) :
        \A i \in 1..Len(h[n].next) :
            (i <= Len(g[n].next) /\ g[n].next[i] # h[n].next[i]) => u[i] = n

\* C18: the search of insert and erase records for every level i below the
\* height the last node of level i whose key is less than the target, the
\* sentinel if there is none; the links insert and erase then change are
\* links of these nodes, recorded on the heap as it was before the call;
\* and a node holding the target key is the node after the level-0
\* predecessor.
C18_SearchPredecessors ==
    \A l \in LiveLists : \A k \in Keys :
        LET hd     == head_[l]
            lvl    == maxLevel_[l]
            update == FindUpdate(heap, hd, lvl, k)
        IN  /\ Len(update) = lvl
            /\ \A i \in 0..(lvl - 1) :
                   At(update, i) = LastLess(heap, LevelNodes(heap, hd, i), hd, k)
            /\ \A n \in Range(LevelNodes(heap, hd, 0)) :
                   heap[n].key = k => n = Candidate(heap, hd, lvl, k)
            /\ OnlyAt(heap, erase(heap, hd, lvl, k).heap, update)
            /\ \A ds \in DrawSeqs, allocOk \in AllocOutcomes :
                   OnlyAt(heap,
                          insert(heap, hd, lvl, maxAllowedLevel_[l],
                                 probability_[l], k, ds, allocOk).heap,
                          update)

\* after an insert the search for a key has different predecessors on
\* levels 0 and 1, the one on level 0 a key node
C18_Witness ==
    /\ op.name = "insert" /\ ret = "inserted"
    /\ \E l \in LiveLists : \E k \in Keys :
        /\ maxLevel_[l] >= 2
        /\ LET update == FindUpdate(heap, head_[l], maxLevel_[l], k)
           IN  /\ At(update, 0) # head_[l]
               /\ At(update, 1) # At(update, 0)

\* the keys of the nodes of list l that have more than i links, in level-0
\* order
KeysAbove(l, i) ==
    LET sp == Spans(heap, head_[l])
        up == SelectSeq(sp, LAMBDA x : x[2] > i)
    IN  [j \in 1..Len(up) |-> up[j][1]]

\* C19: in every reachable state printByLevels of a live list does not take
\* the branch of the absent sentinel; after its header it writes exactly
\* one line per level, for the levels height-1 down to 0, each with the keys
\* of that level (those of the nodes with more links than the level's
\* number) in ascending order, and the line of level 0 is the iteration
\* sequence.  What a printByLevels call has written is this dump.
C19_PrintByLevels ==
    /\ \A l \in LiveLists :
        LET lvl == maxLevel_[l]
            pr  == printByLevels(heap, head_[l], lvl, probability_[l])
        IN  /\ head_[l] # NULL
            /\ Len(pr) = lvl + 1
            /\ pr[1] = [levels |-> lvl, p |-> probability_[l]]
            /\ \A j \in 1..lvl :
                   /\ pr[j + 1].level = lvl - j
                   /\ StrictlyAscending(pr[j + 1].keys)
                   /\ pr[j + 1].keys = KeysAbove(l, lvl - j)
            /\ pr[lvl + 1].keys = Keyseq(l)
    /\ op.name = "print" =>
        \E l \in LiveLists :
            out = printByLevels(heap, head_[l], maxLevel_[l], probability_[l])

\* a moved-from list has just been printed: one header, one empty level
C19_Witness ==
    /\ op.name = "print"
    /\ \E s \in LiveLists, d \in LiveLists :
        /\ s # d /\ ref[d] # {} /\ maxLevel_[d] >= 2
        /\ ref[s] = {}
        /\ out = printByLevels(heap, head_[s], maxLevel_[s], probability_[s])
        /\ Len(out) = 2 /\ out[2].keys = <<>>

====
